---- MODULE Spec2Model ----
(***************************************************************************)
(* Model of image-description-writer: the description engine              *)
(* (writer.py, ImageDescriptionWriter) and the filename engine            *)
(* (renamer.py, ImageRenamer).  A Python str is a sequence of one-character*)
(* strings, so that splitting, joining, lowercasing, prefix and substring *)
(* tests are computed the way the code computes them.                     *)
(***************************************************************************)
EXTENDS Integers, Sequences, FiniteSets, TLC

VARIABLES self, action, fs, pc, files, results, fs0, prev, passes, faults

vars == <<self, action, fs, pc, files, results, fs0, prev, passes, faults>>

(***************************************************************************)
(* Bounds of the model.                                                    *)
(***************************************************************************)
\* Files present under the root when the first invocation starts.
MaxFiles == 2
\* Invocations of the program (batch passes) in one behaviour.
MaxPasses == 2
\* External calls (exiftool, os.rename) that fail in one behaviour.
MaxFaults == 1

(***************************************************************************)
(* Python str operations.                                                  *)
(***************************************************************************)
UpperChars == <<"A", "B", "C", "D", "E", "F", "G", "H", "I", "J", "K", "L", "M",
                "N", "O", "P", "Q", "R", "S", "T", "U", "V", "W", "X", "Y", "Z">>

LowerChars == <<"a", "b", "c", "d", "e", "f", "g", "h", "i", "j", "k", "l", "m",
                "n", "o", "p", "q", "r", "s", "t", "u", "v", "w", "x", "y", "z">>

DigitChars == <<"0", "1", "2", "3", "4", "5", "6", "7", "8", "9">>

Range(s) == {s[i] : i \in 1..Len(s)}

\* str.lower() on one character
LowerChar(c) ==
    IF c \in Range(UpperChars)
    THEN LowerChars[CHOOSE i \in 1..Len(UpperChars) : UpperChars[i] = c]
    ELSE c

\* str.lower()
Lower(s) == [i \in 1..Len(s) |-> LowerChar(s[i])]

\* s[n:]
SliceFrom(s, n) == SubSeq(s, n + 1, Len(s))

\* s[:n]
SliceTo(s, n) == SubSeq(s, 1, n)

RECURSIVE RFindFrom(_, _, _)
\* the last position <= i of c in s, 0 when there is none
RFindFrom(s, c, i) ==
    IF i = 0 THEN 0 ELSE IF s[i] = c THEN i ELSE RFindFrom(s, c, i - 1)

\* str.rfind(c) + 1: the 1-based position of the last c in s, 0 when absent
RFind(s, c) == RFindFrom(s, c, Len(s))

RECURSIVE FindFrom(_, _, _)
\* the first position >= i of c in s, 0 when there is none
FindFrom(s, c, i) ==
    IF i > Len(s) THEN 0 ELSE IF s[i] = c THEN i ELSE FindFrom(s, c, i + 1)

\* str.find(c) + 1
Find(s, c) == FindFrom(s, c, 1)

\* s.startswith(p)
StartsWith(s, p) == Len(p) <= Len(s) /\ SubSeq(s, 1, Len(p)) = p

\* sub in s
Contains(s, sub) ==
    \E i \in 0..(Len(s) - Len(sub)) : SubSeq(s, i + 1, i + Len(sub)) = sub

RECURSIVE StrSplit(_, _)
\* s.split(c): the pieces between the separators, empty pieces kept
StrSplit(s, c) ==
    LET i == Find(s, c)
    IN  IF i = 0
        THEN <<s>>
        ELSE <<SliceTo(s, i - 1)>> \o StrSplit(SliceFrom(s, i), c)

RECURSIVE StrJoin(_, _)
\* sep.join(parts)
StrJoin(parts, sep) ==
    IF Len(parts) = 0 THEN <<>>
    ELSE IF Len(parts) = 1 THEN parts[1]
    ELSE parts[1] \o sep \o StrJoin(Tail(parts), sep)

RECURSIVE StrFilter(_, _)
\* the characters of s that are in the set keep, in order
StrFilter(s, keep) ==
    IF Len(s) = 0 THEN <<>>
    ELSE (IF s[1] \in keep THEN <<s[1]>> ELSE <<>>) \o StrFilter(Tail(s), keep)

RECURSIVE SeqDropEmpty(_)
\* [d for d in parts if d]
SeqDropEmpty(parts) ==
    IF Len(parts) = 0 THEN <<>>
    ELSE (IF parts[1] # <<>> THEN <<parts[1]>> ELSE <<>>) \o SeqDropEmpty(Tail(parts))

\* s.replace(a, b) for single characters
ReplaceChar(s, a, b) == [i \in 1..Len(s) |-> IF s[i] = a THEN b ELSE s[i]]

(***************************************************************************)
(* os.path                                                                 *)
(***************************************************************************)
\* head.rstrip('/')
RECURSIVE RStripSlash(_)
RStripSlash(s) ==
    IF Len(s) > 0 /\ s[Len(s)] = "/" THEN RStripSlash(SliceTo(s, Len(s) - 1)) ELSE s

\* os.path.split(p) -> <<head, tail>>
PathSplit(p) ==
    LET i    == RFind(p, "/")
        head == SliceTo(p, i)
        tail == SliceFrom(p, i)
    IN  <<IF head # <<>> /\ Range(head) # {"/"} THEN RStripSlash(head) ELSE head, tail>>

\* os.path.splitext(p) -> <<root, ext>>: the last dot of the last component,
\* unless only dots precede it in that component
SplitExt(p) ==
    LET sepIndex == RFind(p, "/")
        dotIndex == RFind(p, ".")
    IN  IF dotIndex > sepIndex
           /\ \E k \in (sepIndex + 1)..(dotIndex - 1) : p[k] # "."
        THEN <<SliceTo(p, dotIndex - 1), SliceFrom(p, dotIndex - 1)>>
        ELSE <<p, <<>>>>

(***************************************************************************)
(* Values.  An Optional[int] return value is <<>> for None and <<n>> for   *)
(* n.  A Description read from exiftool's JSON is absent (None), a str or  *)
(* a number.                                                               *)
(***************************************************************************)
\* return codes documented in write_directory_structure
Updated == 0

Skipped == 1

Failed == -1

None == <<>>

Some(n) == <<n>>

NoDesc == [kind |-> "none", str |-> <<>>, num |-> 0]

StrDesc(s) == [kind |-> "str", str |-> s, num |-> 0]

NumDesc(n) == [kind |-> "num", str |-> <<>>, num |-> n]

\* bool(desc)
Truthy(desc) ==
    CASE desc.kind = "none" -> FALSE
      [] desc.kind = "str"  -> desc.str # <<>>
      [] desc.kind = "num"  -> desc.num # 0

\* outcomes of one external call
GetOutcomes == {"ok", "nonzero", "raise"}

SetOutcomes == {"ok", "nonzero", "raise"}

RenameOutcomes == {"ok", "raise"}

(***************************************************************************)
(* writer.py                                                               *)
(***************************************************************************)
ALLOWED_EXT == {<<".", "j", "p", "g">>}

\* argparse default of --prefix
DefaultPrefix == <<"[", "E", "X", "I", "F", " ", "w", "r", "i", "t", "e", "r", "]">>

\* ImageDescriptionWriter.__init__
ImageDescriptionWriter(directory, prefix, existing_prefix, force, dry_run) ==
    [engine          |-> "writer",
     directory       |-> directory,
     prefix          |-> prefix,
     existing_prefix |-> IF existing_prefix # <<>> THEN existing_prefix ELSE prefix,
     force           |-> force,
     dry_run         |-> dry_run,
     include_root    |-> FALSE,
     all_files       |-> FALSE,
     root_dir_length |-> Len(directory)]

\* get_field / get_description: exiftool exits nonzero -> None; the JSON has
\* no such key -> None; subprocess.run or json.loads raises -> the exception
\* leaves get_field (only CalledProcessError is caught there)
get_description(fsys, file_path, out) ==
    [raised |-> out = "raise",
     value  |-> IF out = "ok" THEN fsys[file_path].desc ELSE NoDesc]

\* set_field / set_description: exiftool exits nonzero -> False and the file
\* is as before; writing '' removes the field
set_description(fsys, file_path, value, out) ==
    [raised |-> out = "raise",
     ret    |-> out = "ok",
     fs     |-> IF out = "ok"
                THEN [fsys EXCEPT ![file_path].desc =
                         IF value = <<>> THEN NoDesc ELSE StrDesc(value)]
                ELSE fsys]

\* the dry-run test left out
MayMutateAlways(obj) == TRUE

\* the mutating call is made: not self.dry_run
MayMutate(obj) == ~obj.dry_run

\* `self.existing_prefix in desc` raises TypeError on a number
PrefixTestRaises(desc) == desc.kind = "num"

\* the guard looking for self.prefix where it should look for self.existing_prefix
OverwriteGuardOwnPrefix(obj, desc) ==
    \/ ~Truthy(desc)
    \/ (desc.kind = "str" /\ Contains(desc.str, obj.prefix))
    \/ obj.force

\* not desc or self.existing_prefix in desc or self.force
OverwriteGuard(obj, desc) ==
    \/ ~Truthy(desc)
    \/ (desc.kind = "str" /\ Contains(desc.str, obj.existing_prefix))
    \/ obj.force

\* the trimmed path used as it is, its separators kept
DeriveDescriptionKeepSeparators(obj, filepath) ==
    obj.prefix \o <<" ">> \o SliceFrom(filepath, obj.root_dir_length)

\* trimmed_path, split_path, new_desc
DeriveDescription(obj, filepath) ==
    LET trimmed_path == SliceFrom(filepath, obj.root_dir_length)
        split_path   == StrJoin(StrSplit(trimmed_path, "/"), <<" ">>)
    IN  obj.prefix \o <<" ">> \o split_path

\* the value the already-written branch leaves the function with
AlreadyWrittenReturn == None

\* the return inside the dry-run test, a dry run falling through to Skipped
AppliedReturnLiveOnly(obj) == IF obj.dry_run THEN Some(Skipped) ELSE Some(Updated)

\* return 0 after the (possibly suppressed) mutating call
AppliedReturn(obj) == Some(Updated)

\* what one per-file operation did
Effect(ret, reason, get, read, call, callOut, arg, fsys) ==
    [ret |-> ret, reason |-> reason, get |-> get, read |-> read,
     call |-> call, callOut |-> callOut, arg |-> arg, fs |-> fsys]

\* ImageDescriptionWriter.write_directory_structure
WriterWrite(obj, filepath, fsys, getOut, setOut) ==
    LET ext      == Lower(SplitExt(filepath)[2])
        got      == get_description(fsys, filepath, getOut)
        desc     == got.value
        new_desc == DeriveDescription(obj, filepath)
        put      == set_description(fsys, filepath, new_desc, setOut)
    IN  IF ext # <<".", "j", "p", "g">>
        THEN Effect(None, "not-jpg", "n/a", NoDesc, "none", "n/a", <<>>, fsys)
        ELSE IF got.raised
        THEN Effect(Some(Failed), "error", getOut, NoDesc, "none", "n/a", <<>>, fsys)
        ELSE IF Truthy(desc) /\ PrefixTestRaises(desc)
        THEN Effect(Some(Failed), "error", getOut, desc, "none", "n/a", <<>>, fsys)
        ELSE IF ~OverwriteGuard(obj, desc)
        THEN Effect(Some(Skipped), "foreign-description", getOut, desc,
                    "none", "n/a", <<>>, fsys)
        ELSE IF StrDesc(new_desc) = desc
        THEN Effect(AlreadyWrittenReturn, "already-written", getOut, desc,
                    "none", "n/a", <<>>, fsys)
        ELSE IF ~MayMutate(obj)
        THEN Effect(AppliedReturn(obj), "written", getOut, desc, "none", "n/a", new_desc, fsys)
        ELSE IF put.raised
        THEN Effect(Some(Failed), "error", getOut, desc,
                    "set_field", setOut, new_desc, fsys)
        ELSE Effect(AppliedReturn(obj), "written", getOut, desc,
                    "set_field", setOut, new_desc, put.fs)

\* ImageDescriptionWriter.clean_directory_metadata
WriterClean(obj, filepath, fsys, getOut, setOut) ==
    LET ext  == Lower(SplitExt(filepath)[2])
        got  == get_description(fsys, filepath, getOut)
        desc == got.value
        put  == set_description(fsys, filepath, <<>>, setOut)
    IN  IF ext # <<".", "j", "p", "g">>
        THEN Effect(Some(Skipped), "not-jpg", "n/a", NoDesc, "none", "n/a", <<>>, fsys)
        ELSE IF got.raised
        THEN Effect(Some(Failed), "error", getOut, NoDesc, "none", "n/a", <<>>, fsys)
        ELSE IF Truthy(desc) /\ PrefixTestRaises(desc)
        THEN Effect(Some(Failed), "error", getOut, desc, "none", "n/a", <<>>, fsys)
        ELSE IF ~(Truthy(desc) /\ Contains(desc.str, obj.existing_prefix))
        THEN Effect(Some(Skipped), "no-matching-prefix", getOut, desc,
                    "none", "n/a", <<>>, fsys)
        ELSE IF ~MayMutate(obj)
        THEN Effect(AppliedReturn(obj), "removed", getOut, desc, "none", "n/a", <<>>, fsys)
        ELSE IF put.raised
        THEN Effect(Some(Failed), "error", getOut, desc, "set_field", setOut, <<>>, fsys)
        ELSE Effect(AppliedReturn(obj), "removed", getOut, desc,
                    "set_field", setOut, <<>>, put.fs)

(***************************************************************************)
(* renamer.py                                                              *)
(***************************************************************************)
REPLACEABLE_PATTERNS == {<<"I", "M", "G", "_">>, <<"D", "S", "C", "N">>,
                         <<"8", "3", "9", "A">>, <<"M", "V", "I", "_">>}

\* ImageRenamer.__init__
ImageRenamer(directory, include_root, dry_run, all_files) ==
    [engine          |-> "renamer",
     directory       |-> directory,
     prefix          |-> <<>>,
     existing_prefix |-> <<>>,
     force           |-> FALSE,
     dry_run         |-> dry_run,
     include_root    |-> include_root,
     all_files       |-> all_files,
     root_dir_length |-> Len(directory)]

\* ImageRenamer.get_path_components -> <<dir_string, filename_base, ext>>
get_path_components(file_path) ==
    LET split    == PathSplit(file_path)
        filename == split[2]
    IN  <<split[1], SplitExt(filename)[1], Lower(SplitExt(filename)[2])>>

\* the characters re.sub(r'[^a-zA-Z0-9_\- ]', '', ...) keeps
DirnameChars ==
    Range(UpperChars) \cup Range(LowerChars) \cup Range(DigitChars) \cup {"_", "-", " "}

\* ImageRenamer.clean_dirname
clean_dirname(dirname) ==
    ReplaceChar(Lower(StrFilter(dirname, DirnameChars)), " ", "-")

\* re.match(r, filename_base) for some r of REPLACEABLE_PATTERNS: each pattern
\* is a literal followed by .*, and re.match anchors at the start
MatchesPattern(filename_base) ==
    \E r \in REPLACEABLE_PATTERNS : StartsWith(filename_base, r)

\* self.all_files or any([re.match(...)])
Eligible(obj, filename_base) == obj.all_files \/ MatchesPattern(filename_base)

\* new_filename_base: the cleaned, non-empty directory components joined
NewFilenameBase(obj, dir_string) ==
    LET filename_dir_string ==
            IF obj.include_root THEN dir_string
            ELSE SliceFrom(dir_string, Len(obj.directory))
        cleaned_dir_components ==
            [i \in 1..Len(StrSplit(filename_dir_string, "/")) |->
                clean_dirname(StrSplit(filename_dir_string, "/")[i])]
    IN  StrJoin(SeqDropEmpty(cleaned_dir_components), <<"_">>)

\* an exact comparison in place of the prefix test
AlreadyRenamedExact(filename_base, new_filename_base) ==
    filename_base = new_filename_base

\* the prefix test skipped when there are no tokens
AlreadyRenamedNonEmpty(filename_base, new_filename_base) ==
    new_filename_base # <<>> /\ StartsWith(filename_base, new_filename_base)

\* filename_base.startswith(new_filename_base)
AlreadyRenamed(filename_base, new_filename_base) ==
    StartsWith(filename_base, new_filename_base)

\* new_file_path
NewFilePath(dir_string, new_filename_base, filename_base, ext) ==
    dir_string \o <<"/">> \o new_filename_base \o <<"_">> \o filename_base \o ext

\* os.rename(src, dst): raises OSError (also when src is gone); on success
\* dst names what src named, replacing a file already at dst
os_rename(fsys, src, dst, out) ==
    [raised |-> out = "raise" \/ src \notin DOMAIN fsys,
     fs     |-> IF out = "ok" /\ src \in DOMAIN fsys
                THEN [q \in (DOMAIN fsys \ {src}) \cup {dst} |->
                         IF q = dst THEN fsys[src] ELSE fsys[q]]
                ELSE fsys]

\* ImageRenamer.write_directory_structure
RenamerWrite(obj, file_path, fsys, renOut) ==
    LET comps             == get_path_components(file_path)
        dir_string        == comps[1]
        filename_base     == comps[2]
        ext               == comps[3]
        new_filename_base == NewFilenameBase(obj, dir_string)
        new_file_path     == NewFilePath(dir_string, new_filename_base, filename_base, ext)
        moved             == os_rename(fsys, file_path, new_file_path, renOut)
    IN  IF ~Eligible(obj, filename_base)
        THEN Effect(Some(Skipped), "ineligible-pattern", "n/a", NoDesc,
                    "none", "n/a", <<>>, fsys)
        ELSE IF AlreadyRenamed(filename_base, new_filename_base)
        THEN Effect(Some(Skipped), "already-renamed", "n/a", NoDesc,
                    "none", "n/a", <<>>, fsys)
        ELSE IF ~MayMutate(obj)
        THEN Effect(AppliedReturn(obj), "renamed", "n/a", NoDesc,
                    "none", "n/a", new_file_path, fsys)
        ELSE IF moved.raised
        THEN Effect(Some(Failed), "error", "n/a", NoDesc,
                    "rename", "raise", new_file_path, fsys)
        ELSE Effect(AppliedReturn(obj), "renamed", "n/a", NoDesc,
                    "rename", renOut, new_file_path, moved.fs)

\* ImageRenamer.clean_directory_metadata: ImageRenamer has no get_description,
\* so a .jpg ends in the except branch
RenamerClean(obj, filepath, fsys) ==
    LET ext == Lower(SplitExt(filepath)[2])
    IN  IF ext = <<".", "j", "p", "g">>
        THEN Effect(Some(Failed), "error", "n/a", NoDesc, "none", "n/a", <<>>, fsys)
        ELSE Effect(Some(Skipped), "not-jpg", "n/a", NoDesc, "none", "n/a", <<>>, fsys)

(***************************************************************************)
(* glob and the batch                                                      *)
(***************************************************************************)
\* glob.glob('{}/**/*.*', recursive=True): the files under directory whose
\* name holds a dot, hidden names and hidden directories left out
Glob(fsys, directory) ==
    {p \in DOMAIN fsys :
        /\ StartsWith(p, directory \o <<"/">>)
        /\ LET parts == StrSplit(SliceFrom(p, Len(directory) + 1), "/")
           IN  /\ \A i \in 1..Len(parts) : parts[i] # <<>> /\ parts[i][1] # "."
               /\ "." \in Range(parts[Len(parts)])}

\* the files execute_on_files hands to func
Enumerate(obj, fsys) ==
    IF obj.engine = "writer"
    THEN {f \in Glob(fsys, obj.directory) : Lower(SplitExt(f)[2]) \in ALLOWED_EXT}
    ELSE Glob(fsys, obj.directory)

\* results.count(code)
Count(res, code) == Cardinality({f \in DOMAIN res : res[f].ret = Some(code)})

\* updated_count, skipped_count, errored_count
Summary(res) ==
    [updated |-> Count(res, Updated),
     skipped |-> Count(res, Skipped),
     errored |-> Count(res, Failed)]

(***************************************************************************)
(* The files and configurations the model starts from.                     *)
(***************************************************************************)
Root == <<"/", "l", "i", "b">>

Trips == <<"T", "r", "i", "p", "s">>

Paris2023 == <<"P", "a", "r", "i", "s", " ", "2", "0", "2", "3">>

IMG_001jpg == <<"I", "M", "G", "_", "0", "0", "1", ".", "j", "p", "g">>

\* /lib/Trips/Paris 2023/IMG_001.jpg
ParisFile == Root \o <<"/">> \o Trips \o <<"/">> \o Paris2023 \o <<"/">> \o IMG_001jpg

\* /lib/IMG_2.jpg: directly in the root
RootFile == Root \o <<"/", "I", "M", "G", "_", "2", ".", "j", "p", "g">>

\* /lib/a/IMG_1.jpg
LowerFile == Root \o <<"/", "a", "/", "I", "M", "G", "_", "1", ".", "j", "p", "g">>

\* /lib/a/IMG_1.JPG
UpperFile == Root \o <<"/", "a", "/", "I", "M", "G", "_", "1", ".", "J", "P", "G">>

\* /lib/a/a_IMG_1.jpg
PrefixedFile ==
    Root \o <<"/", "a", "/", "a", "_", "I", "M", "G", "_", "1", ".", "j", "p", "g">>

\* /lib/a/notes.txt
NotesFile == Root \o <<"/", "a", "/", "n", "o", "t", "e", "s", ".", "t", "x", "t">>

\* /lib/!!/DSCN3.png: the directory name cleans to nothing
BangFile == Root \o <<"/", "!", "!", "/", "D", "S", "C", "N", "3", ".", "p", "n", "g">>

\* /lib/a/README: no dot in the name
ReadmeFile == Root \o <<"/", "a", "/", "R", "E", "A", "D", "M", "E">>

RenamerPaths ==
    {ParisFile, RootFile, LowerFile, UpperFile, PrefixedFile, NotesFile, BangFile,
     ReadmeFile}

WriterPaths == {ParisFile, UpperFile, NotesFile}

\* "old": an --existing-prefix other than the prefix
OldMarker == <<"o", "l", "d">>

InitialDescs ==
    {NoDesc,
     StrDesc(<<>>),
     StrDesc(<<"m", "y", " ", "c", "a", "t">>),
     StrDesc(DefaultPrefix \o <<" ">> \o OldMarker),
     NumDesc(2023)}

\* the Descriptions a file of this name may start with
DescsOf(q, descs) ==
    IF Lower(SplitExt(q)[2]) \in ALLOWED_EXT THEN descs ELSE {NoDesc}

\* file systems: at most MaxFiles files; id names the content (the path the
\* file had at the start), desc is its Description field
FileSystems(paths, descs) ==
    UNION {{[q \in ps |-> [id |-> q, desc |-> d[q]]] :
               d \in {e \in [ps -> descs] : \A q \in ps : e[q] \in DescsOf(q, descs)}} :
           ps \in {x \in SUBSET paths : Cardinality(x) \in 1..MaxFiles}}

(***************************************************************************)
(* The program: one invocation is execute_on_files over the enumerated     *)
(* files, then the counts; the next invocation is given the same arguments *)
(* and any --dry-run.                                                      *)
(***************************************************************************)
Init ==
    /\ action \in {"write", "clean"}
    /\ \/ /\ \E existing_prefix \in {<<>>, OldMarker}, force \in BOOLEAN, dry_run \in BOOLEAN :
                self = ImageDescriptionWriter(Root, DefaultPrefix, existing_prefix,
                                              force, dry_run)
          /\ fs \in FileSystems(WriterPaths, InitialDescs)
       \/ /\ \E include_root \in BOOLEAN, dry_run \in BOOLEAN, all_files \in BOOLEAN :
                self = ImageRenamer(Root, include_root, dry_run, all_files)
          /\ fs \in FileSystems(RenamerPaths, {NoDesc})
    /\ pc = "start"
    /\ files = {}
    /\ results = <<>>
    /\ fs0 = fs
    /\ prev = <<>>
    /\ passes = 1
    /\ faults = 0

\* the record kept of one per-file operation
Outcome(eff) ==
    [ret |-> eff.ret, reason |-> eff.reason, get |-> eff.get, read |-> eff.read,
     call |-> eff.call, callOut |-> eff.callOut, arg |-> eff.arg]

\* external calls of the operation that failed
FaultsOf(eff) ==
    (IF eff.get \in {"nonzero", "raise"} THEN 1 ELSE 0)
    + (IF eff.callOut \in {"nonzero", "raise"} THEN 1 ELSE 0)

\* one element of the map over files
Apply(f, eff) ==
    /\ faults + FaultsOf(eff) <= MaxFaults
    /\ fs' = eff.fs
    /\ results' = results @@ (f :> Outcome(eff))
    /\ faults' = faults + FaultsOf(eff)
    /\ UNCHANGED <<self, action, pc, files, fs0, prev, passes>>

\* execute_on_files: glob, the extension filter (writer only)
ExecuteOnFiles ==
    /\ pc = "start"
    /\ files' = Enumerate(self, fs)
    /\ results' = <<>>
    /\ fs0' = fs
    /\ pc' = "map"
    /\ UNCHANGED <<self, action, fs, prev, passes, faults>>

\* p.map(self.write_directory_structure, files), one file (writer)
WriterWriteFile ==
    /\ pc = "map" /\ self.engine = "writer" /\ action = "write"
    /\ \E f \in files \ DOMAIN results, getOut \in GetOutcomes, setOut \in SetOutcomes :
          Apply(f, WriterWrite(self, f, fs, getOut, setOut))

\* p.map(self.clean_directory_metadata, files), one file (writer)
WriterCleanFile ==
    /\ pc = "map" /\ self.engine = "writer" /\ action = "clean"
    /\ \E f \in files \ DOMAIN results, getOut \in GetOutcomes, setOut \in SetOutcomes :
          Apply(f, WriterClean(self, f, fs, getOut, setOut))

\* [func(f) for f in files], one file (renamer, write)
RenamerWriteFile ==
    /\ pc = "map" /\ self.engine = "renamer" /\ action = "write"
    /\ \E f \in files \ DOMAIN results, renOut \in RenameOutcomes :
          Apply(f, RenamerWrite(self, f, fs, renOut))

\* [func(f) for f in files], one file (renamer, clean)
RenamerCleanFile ==
    /\ pc = "map" /\ self.engine = "renamer" /\ action = "clean"
    /\ \E f \in files \ DOMAIN results :
          Apply(f, RenamerClean(self, f, fs))

\* the counts logged at the end of execute_on_files
ReportCounts ==
    /\ pc = "map"
    /\ DOMAIN results = files
    /\ pc' = "done"
    /\ UNCHANGED <<self, action, fs, files, results, fs0, prev, passes, faults>>

\* what is remembered of a finished invocation
Invocation(obj, res) == [self |-> obj, results |-> res, summary |-> Summary(res)]

\* the program is run again with the same arguments and any --dry-run
Reinvoke ==
    /\ pc = "done"
    /\ passes < MaxPasses
    /\ \E dry_run \in BOOLEAN : self' = [self EXCEPT !.dry_run = dry_run]
    /\ prev' = <<Invocation(self, results)>>
    /\ passes' = passes + 1
    /\ files' = {}
    /\ results' = <<>>
    /\ pc' = "start"
    /\ UNCHANGED <<action, fs, fs0, faults>>

Next ==
    \/ ExecuteOnFiles
    \/ WriterWriteFile
    \/ WriterCleanFile
    \/ RenamerWriteFile
    \/ RenamerCleanFile
    \/ ReportCounts
    \/ Reinvoke

Spec == Init /\ [][Next]_vars

(***************************************************************************)
(* Properties                                                              *)
(***************************************************************************)
Running == pc \in {"map", "done"}

WriterWriting == Running /\ self.engine = "writer" /\ action = "write"

RenamerWriting == Running /\ self.engine = "renamer" /\ action = "write"

Codes == {Some(Updated), Some(Skipped), Some(Failed)}

CallFailed(o) == o.callOut \in {"nonzero", "raise"}

GetFailed(o) == o.get \in {"nonzero", "raise"}

\* desc is text that holds marker
HoldsMarker(desc, marker) == desc.kind = "str" /\ Contains(desc.str, marker)

\* the previous invocation, when there was one
Prev == prev[1]

\* C1: every per-file operation of a pass ends in Updated, Skipped or Failed,
\* so at the end of the pass the three counts add up to the number of files.
C1_EveryFileCounted ==
    /\ \A f \in DOMAIN results : Running => results[f].ret \in Codes
    /\ pc = "done" =>
          Summary(results).updated + Summary(results).skipped
              + Summary(results).errored = Cardinality(files)

\* C2 as stated: writing with force unset, a file whose description (as read)
\* does not contain existing_prefix is Skipped as foreign, set_field is not
\* called and the stored description stays.
C2_GuardAnyDescription ==
    WriterWriting /\ ~self.force =>
        \A f \in DOMAIN results :
            results[f].get = "ok" /\ ~HoldsMarker(results[f].read, self.existing_prefix)
            => /\ results[f].ret = Some(Skipped)
               /\ results[f].reason = "foreign-description"
               /\ results[f].call = "none"
               /\ fs[f].desc = fs0[f].desc

\* C2 amended: writing with force unset, a file whose description is a
\* non-empty text that does not contain existing_prefix is Skipped as
\* foreign, set_field is not called and the stored description stays.
C2_GuardForeignText ==
    WriterWriting /\ ~self.force =>
        \A f \in DOMAIN results :
            /\ results[f].read.kind = "str"
            /\ results[f].read.str # <<>>
            /\ ~Contains(results[f].read.str, self.existing_prefix)
            => /\ results[f].ret = Some(Skipped)
               /\ results[f].reason = "foreign-description"
               /\ results[f].call = "none"
               /\ fs[f].desc = fs0[f].desc
               /\ fs[f].desc = results[f].read

C2_Witness ==
    /\ WriterWriting /\ ~self.force /\ ~self.dry_run
    /\ \E f \in DOMAIN results :
          /\ results[f].read.kind = "str"
          /\ results[f].read.str # <<>>
          /\ ~Contains(results[f].read.str, self.existing_prefix)
          /\ results[f].ret = Some(Skipped)

\* C3: a file whose description was written by a write pass is, in the next
\* write pass with the same prefix and root (its description being readable),
\* Skipped: no set_field call, the stored description the one written.
C3_SecondWriteSkipped ==
    WriterWriting /\ prev # <<>> =>
        \A f \in DOMAIN results \cap DOMAIN Prev.results :
            /\ Prev.results[f].reason = "written"
            /\ Prev.results[f].call = "set_field"
            /\ Prev.results[f].callOut = "ok"
            /\ results[f].get = "ok"
            => /\ results[f].ret = Some(Skipped)
               /\ results[f].call = "none"
               /\ fs[f].desc = StrDesc(Prev.results[f].arg)

\* the files the previous invocation renamed, by their new paths
RenamedBefore ==
    {Prev.results[f].arg : f \in {g \in DOMAIN Prev.results :
        Prev.results[g].call = "rename" /\ Prev.results[g].callOut = "ok"}}

\* C4 as stated: a file renamed by one pass is, in the next pass with the
\* same root and flags, reported as already renamed (with all_files set or
\* not) and not renamed again.
C4_SecondPassAlreadyRenamed ==
    RenamerWriting /\ prev # <<>> =>
        \A np \in RenamedBefore \cap DOMAIN results :
            /\ results[np].ret = Some(Skipped)
            /\ results[np].reason = "already-renamed"
            /\ results[np].call = "none"

\* C4 amended: a file renamed by one pass is, in the next pass with the same
\* root and flags, Skipped and not renamed again: as already renamed when
\* all_files is set, as not matching a device pattern when it is not; the
\* pass enumerates it, and it keeps its name.
C4_SecondPassSkipsRenamed ==
    RenamerWriting /\ prev # <<>> =>
        /\ \A np \in RenamedBefore \cap DOMAIN results :
              /\ results[np].ret = Some(Skipped)
              /\ results[np].reason =
                    (IF self.all_files THEN "already-renamed" ELSE "ineligible-pattern")
              /\ results[np].call = "none"
              /\ np \in DOMAIN fs
        /\ pc = "done" => RenamedBefore \subseteq DOMAIN results

C4_Witness ==
    /\ RenamerWriting /\ prev # <<>> /\ ~self.dry_run /\ self.all_files
    /\ \E np \in RenamedBefore \cap DOMAIN results : results[np].ret = Some(Skipped)

\* a dry run followed by a live run with the same arguments
DryThenLive == pc = "done" /\ prev # <<>> /\ Prev.self.dry_run /\ ~self.dry_run

\* get_field answered alike for each file in both runs
ReadsAlike ==
    \A f \in DOMAIN results \cap DOMAIN Prev.results :
        results[f].get = Prev.results[f].get

C6_DryRunMutatesNothing ==
    Running /\ self.dry_run =>
        /\ fs = fs0
        /\ \A f \in DOMAIN results : results[f].call = "none"

C6_Witness ==
    /\ pc = "done" /\ self.dry_run
    /\ \E f \in DOMAIN results :
          results[f].reason \in {"written", "removed", "renamed"}

\* C7: a file for which an external call failed (get_field or set_field
\* exiting nonzero or raising, os.rename raising) is Failed.
C7_FailedCallMeansFailed ==
    Running =>
        \A f \in DOMAIN results :
            GetFailed(results[f]) \/ CallFailed(results[f])
            => results[f].ret = Some(Failed)

\* "[EXIF writer]  Trips/Paris 2023/IMG_001.jpg"
ParisDescSeparators ==
    DefaultPrefix \o <<" ", " ">> \o Trips \o <<"/">> \o Paris2023 \o <<"/">> \o IMG_001jpg

\* "[EXIF writer]  Trips Paris 2023 IMG_001.jpg"
ParisDescSpaces ==
    DefaultPrefix \o <<" ", " ">> \o Trips \o <<" ">> \o Paris2023 \o <<" ">> \o IMG_001jpg

\* C8 as stated: the description written for /lib/Trips/Paris 2023/IMG_001.jpg
\* under root /lib and prefix [EXIF writer] keeps the separators of the
\* trimmed path.
C8_DescriptionKeepsSeparators ==
    WriterWriting =>
        (ParisFile \in DOMAIN results /\ results[ParisFile].reason = "written"
         => results[ParisFile].arg = ParisDescSeparators)

\* C8 amended: the description written is the prefix, a space, and the
\* trimmed path with every separator turned into a space; for
\* /lib/Trips/Paris 2023/IMG_001.jpg it is
\* "[EXIF writer]  Trips Paris 2023 IMG_001.jpg", and a successful set_field
\* stores it.
C8_DescriptionSpacesForSeparators ==
    WriterWriting =>
        \A f \in DOMAIN results :
            results[f].reason = "written" =>
                /\ results[f].arg =
                      self.prefix \o <<" ">>
                         \o ReplaceChar(SliceFrom(f, Len(self.directory)), "/", " ")
                /\ f = ParisFile => results[f].arg = ParisDescSpaces
                /\ results[f].callOut = "ok" => fs[f].desc = StrDesc(results[f].arg)

C8_Witness ==
    /\ WriterWriting
    /\ ParisFile \in DOMAIN results
    /\ results[ParisFile].reason = "written"
    /\ results[ParisFile].read = NoDesc
    /\ results[ParisFile].callOut = "ok"

\* the file is eligible and its directories leave no token
NoTokens(f) ==
    /\ Eligible(self, get_path_components(f)[2])
    /\ NewFilenameBase(self, get_path_components(f)[1]) = <<>>

\* C9 as stated: an eligible file whose directories leave no token is renamed
\* to "_" + baseName + extension and counted Updated.
C9_NoTokensRenamed ==
    RenamerWriting =>
        \A f \in DOMAIN results :
            NoTokens(f) =>
                /\ results[f].ret = Some(Updated)
                /\ results[f].arg =
                      get_path_components(f)[1] \o <<"/", "_">>
                         \o get_path_components(f)[2] \o get_path_components(f)[3]

\* C9 amended: an eligible file whose directories leave no token is reported
\* as already renamed: Skipped, os.rename not called, the file keeps its path.
C9_NoTokensSkipped ==
    RenamerWriting =>
        \A f \in DOMAIN results :
            NoTokens(f) =>
                /\ results[f].ret = Some(Skipped)
                /\ results[f].reason = "already-renamed"
                /\ results[f].call = "none"
                /\ f \in DOMAIN fs

C9_Witness ==
    /\ RenamerWriting /\ ~self.dry_run
    /\ \E f \in DOMAIN results : NoTokens(f) /\ results[f].ret = Some(Skipped)

\* the contents present in a file system
Contents(fsys) == {fsys[q].id : q \in DOMAIN fsys}

\* C10: a rename pass never renames a file onto a path another file holds:
\* the files under the root after the pass are as many as before, and no
\* content is lost.
C10_NoFileLost ==
    RenamerWriting =>
        /\ Contents(fs) = Contents(fs0)
        /\ Cardinality(DOMAIN fs) = Cardinality(DOMAIN fs0)

====
